---- MODULE Spec2Model ----
(***************************************************************************)
(* Client side of the history-timeline viewer: the data-loading layer      *)
(* (fetchWithRetry, fetchApiData, loadInitialData), the App component's     *)
(* load effect and error classification, the PerformanceMonitor's metric   *)
(* store and the Earth3D marker update.                                     *)
(*                                                                         *)
(* Time is in milliseconds.  A JavaScript value that may be undefined or   *)
(* null is a sequence of length 0 (absent) or 1 (present).  A message is   *)
(* the sequence of its words, so that String.includes is a real search.    *)
(***************************************************************************)
EXTENDS Integers, Sequences, FiniteSets, TLC

VARIABLES
    \* ---- one fetchApiData invocation -------------------------------
    now,          \* the clock, ms since the invocation started
    endpoint,     \* "events" | "periods" | "regions" | "none"
    frPc,         \* fetchWithRetry: "idle" | "fetching" | "sleeping" | "returned" | "thrown"
    frI,          \* fetchWithRetry: the loop variable i
    frStart,      \* when the fetch call in flight was issued
    frWakeAt,     \* when the pending sleep() resolves
    frResult,     \* what fetchWithRetry returned or threw
    attemptLog,   \* history: one entry per finished fetch call
    apiPc,        \* fetchApiData: "idle" | "racing" | "parsing" | "resolved" | "rejected"
    apiOut,       \* what fetchApiData resolved or rejected with
    timedOut,     \* history: the timeout() timer won the race
    apiCause,     \* history: the error the catch block of fetchApiData caught
    apiBody,      \* history: the body handleApiResponse read, if it read one
    \* ---- loadInitialData and the App component ------------------------
    useMockData,  \* config.useMockData
    loadPc,       \* loadInitialData: "idle", or the load that settles next
                  \*   ("events" | "periods" | "regions")
    loadData,     \* what the requests settled so far have delivered
    loadRejs,     \* the rejections of the loads settled so far
    handled,      \* history: the error handleError was last called with, if any
    events,       \* App state
    regions,
    loading,
    error,
    notification,
    retryCountdown,
    timers,       \* how many setInterval timers of handleError exist
    loads,        \* history: how many times the load effect has run since the page loaded
    \* ---- one loadInitialData call on given data -----------------------
    ldEvents,     \* the events the load delivered
    ldZoom,       \* the zoomLevel argument
    ldResult,     \* what the call returned, if it has
    \* ---- PerformanceMonitor --------------------------------------------
    metrics,      \* this.metrics: metric name -> {calls, totalDuration, errors, durations}
    recorded,     \* history: metric name -> every value recorded for it, in order
    \* ---- Earth3D --------------------------------------------------------
    e3Events,     \* the events prop
    currentDate,  \* the currentDate prop (a year)
    zoomLevel,    \* the zoomLevel state
    visibleEvents,\* the visibleEvents constant of the effect run last
    markersRef,   \* markersRef.current: the event of each marker it holds
    earthMarkers, \* event id -> how many markers of it the globe holds
    \* ---- AdminPanel and its EventTable ----------------------------------
    activeTab,    \* "events" | "periods" | "regions"
    adEvents,     \* AdminPanel's events
    adFilteredEvents, \* AdminPanel's filteredEvents, the events prop of EventTable
    adAliased,    \* filteredEvents is the very array that events is
    searchParams, \* [title, period, startDate, endDate]
    adCrashed,    \* a render of EventTable threw: the panel is gone
    delPending,   \* the onDelete call whose DELETE request is in flight, if any
    order,        \* EventTable: "asc" | "desc" (orderBy stays 'title')
    deleteDialogOpen,
    eventToDelete,
    deleteCalls,  \* history: the ids onDelete was called with, in order
    lastClicked,  \* history: the event whose delete button was clicked last
    adLastOp,     \* history: the handler that ran last
    \* ---- EventForm / PeriodForm ------------------------------------------
    formKind,     \* which form: "EventForm" | "EventFormRich" | "PeriodForm"
    formData,     \* [start, end]: the two date (year) fields as typed
    formErrors,   \* the keys of errors
    submitted,    \* history: what the last handleSubmit called onSubmit with, if it did
    formLastOp,   \* history: "none" | "change" | "submit"
    \* ---- one handleError call ---------------------------------------------
    heError       \* the error handleError is called with, if a call is due

fetchVars == <<now, endpoint, frPc, frI, frStart, frWakeAt, frResult, attemptLog,
               apiPc, apiOut, timedOut, apiCause, apiBody>>

loadVars == <<useMockData, loadPc, loadData, loadRejs, handled>>

appVars == <<events, regions, loading, error, notification, retryCountdown, timers,
             loads>>

frVars == <<frPc, frI, frStart, frWakeAt, frResult, attemptLog>>
apiVars == <<apiPc, apiOut, timedOut, apiCause, apiBody>>

ldVars == <<ldEvents, ldZoom, ldResult>>

perfVars == <<metrics, recorded>>

earthVars == <<e3Events, currentDate, zoomLevel, visibleEvents, markersRef, earthMarkers>>

adminVars == <<activeTab, adEvents, adFilteredEvents, adAliased, searchParams, adCrashed,
               delPending, order, deleteDialogOpen, eventToDelete, deleteCalls,
               lastClicked, adLastOp>>

formVars == <<formKind, formData, formErrors, submitted, formLastOp>>

\* The admin pages and the single handleError call
moreVars == <<adminVars, formVars, heError>>

vars == <<fetchVars, loadVars, appVars, ldVars, perfVars, earthVars, moreVars>>

----------------------------------------------------------------------------
\* Bounds of the model
MaxTime == 8000          \* the clock stops advancing here
MaxLoads == 2            \* runs of the load effect between two page loads
MaxEvents == 3           \* events in a loaded list
MaxZoom == 3             \* the largest zoomLevel argument

----------------------------------------------------------------------------
\* Program constants
retries == 3
baseDelay == 1000
apiTimeout == 5000

----------------------------------------------------------------------------
\* Optional values
None == <<>>
Some(v) == <<v>>
IsSome(o) == Len(o) = 1
Val(o) == o[1]

\* String.prototype.includes on word sequences: pat occurs contiguously in msg
includes(msg, pat) ==
    \E k \in 0..(Len(msg) - Len(pat)) :
        \A j \in 1..Len(pat) : msg[k + j] = pat[j]

\* Messages
MsgTimeout == <<"Request", "timeout">>
MsgFailedToFetch == <<"Failed", "to", "fetch">>
MsgUnexpectedToken == <<"Unexpected", "token">>
MsgCannotRead == <<"Cannot", "read", "properties", "of", "undefined">>
MsgTooMany == <<"Too", "many", "requests">>
MsgDbDown == <<"Database", "unavailable">>
MsgInvalid == <<"Invalid", "parameter">>
MsgGateway == <<"Gateway", "Timeout">>
MsgUpstream == <<"upstream", "timeout">>

\* A thrown JavaScript error.  type and retry_after are absent on plain errors.
Err(class, type, message, retry_after) ==
    [class |-> class, type |-> type, message |-> message, retry_after |-> retry_after]

NoError == Err("none", None, <<>>, None)

\* new Error(message), TypeError, SyntaxError
PlainError(class, message) == Err(class, None, message, None)

\* class ApiError: copies type and details of its argument, message through super()
ApiError(err) == Err("ApiError", err.type, err.message, err.retry_after)

----------------------------------------------------------------------------
\* What the backend can send

\* Raw events as the backend (or the mock files) deliver them
RawEvent(id, zh, start, end, zoom, color, images) ==
    [id |-> id,
     title |-> [zh |-> zh, en |-> "title-en"],
     date |-> [start |-> start, end |-> end],
     location |-> [coordinates |-> <<30, 110>>, zoomLevel |-> zoom, highlightColor |-> color],
     articles |-> None,
     images |-> images]

evA == RawEvent("a", "zh-a", "1000-01-01", "1500-01-01", 0, None, None)
evB == RawEvent("b", "", "1200-01-01", "2000-01-01", 1, Some("#00FF00"), Some(<<"b.png">>))
evC == RawEvent("c", "zh-c", "-0500-01-01", "", 2, None, None)
evD == RawEvent("d", "zh-d", "1500-01-01", "not-a-date", 3, None, None)

\* The payloads of a successful response, per endpoint
EventPayloads == {<<>>, <<evB, evA>>}
RawEvents == {evA, evB, evC, evD}

\* The sequences over S of length at most n
SeqsUpTo(S, n) == UNION {[1..k -> S] : k \in 0..n}
PeriodPayloads == {<<"ancient", "modern">>}
RegionPayloads == {<<"asia">>}
Payloads(ep) ==
    IF ep = "events" THEN EventPayloads
    ELSE IF ep = "periods" THEN PeriodPayloads
    ELSE RegionPayloads

\* data.error of a body with success = false
ServerError(type, message, retry_after) ==
    [type |-> type, message |-> message, retry_after |-> retry_after]

ServerErrors ==
    { ServerError(Some("DATABASE_ERROR"), MsgDbDown, None),
      ServerError(Some("VALIDATION_ERROR"), MsgInvalid, None),
      ServerError(Some("CLIENT_ERROR"), MsgTooMany, None),
      ServerError(Some("CLIENT_ERROR"), MsgTooMany, Some(0)),
      ServerError(Some("CLIENT_ERROR"), MsgTooMany, Some(2)),
      ServerError(Some("CLIENT_ERROR"), MsgUpstream, None),
      ServerError(Some("CLIENT_ERROR"), MsgGateway, None),
      ServerError(Some("AUTH_ERROR"), MsgInvalid, None),
      ServerError(None, MsgDbDown, None) }

\* The body of a response whose status is not 429, as response.json() yields it
Body(parsable, success, data, err) ==
    [parsable |-> parsable, success |-> success, data |-> data, error |-> err]

Bodies(ep) ==
    {Body(FALSE, FALSE, <<>>, None), Body(TRUE, FALSE, <<>>, None)}
    \cup {Body(TRUE, TRUE, d, None) : d \in Payloads(ep)}
    \cup {Body(TRUE, FALSE, <<>>, Some(e)) : e \in ServerErrors}

\* The body of a 429 response: unreadable, or with detail.retry_after absent or given (ms)
Body429(parsable, retry_after) == [parsable |-> parsable, retry_after |-> retry_after]
Bodies429 ==
    {Body429(FALSE, None), Body429(TRUE, None), Body429(TRUE, Some(0)),
     Body429(TRUE, Some(1000)), Body429(TRUE, Some(3000))}

Statuses == {200, 503}

----------------------------------------------------------------------------
\* fetchWithRetry

FrResult(kind, status, err) == [kind |-> kind, status |-> status, error |-> err]
FrNone == FrResult("none", 0, NoError)

Attempt(i, start, end, kind, retry_after) ==
    [i |-> i, start |-> start, end |-> end, kind |-> kind, retry_after |-> retry_after]

\* data.detail?.retry_after || Math.pow(2, i) * baseDelay
RetryAfterDelay(body, i) ==
    IF IsSome(body.retry_after) /\ Val(body.retry_after) # 0
    THEN Val(body.retry_after)
    ELSE (2 ^ i) * baseDelay

\* Mutant: the back-off does not grow
BackoffDelay_Constant(i) == baseDelay

\* Math.pow(2, i) * baseDelay
BackoffDelay(i) == (2 ^ i) * baseDelay

\* The loop condition i < retries, met on entry and after every i++
LoopContinues(i) == i < retries

\* Everything but the state of the fetchApiData invocation
notFetch == <<loadVars, appVars, ldVars, perfVars, earthVars, moreVars>>

\* The catch block: rethrow on the last attempt, back off otherwise
FetchCatch(err, kind) ==
    /\ attemptLog' = Append(attemptLog, Attempt(frI, frStart, now, kind, None))
    /\ IF frI = retries - 1
       THEN /\ frPc' = "thrown"
            /\ frResult' = FrResult("error", 0, err)
            /\ UNCHANGED frWakeAt
       ELSE /\ frPc' = "sleeping"
            /\ frWakeAt' = now + BackoffDelay(frI)
            /\ UNCHANGED frResult
    /\ UNCHANGED <<now, endpoint, frI, frStart, apiVars, notFetch>>

\* fetch() rejects: the network failed
FetchFails ==
    /\ frPc = "fetching"
    /\ FetchCatch(PlainError("TypeError", MsgFailedToFetch), "neterr")

\* fetch() resolves with status 429
FetchRateLimited ==
    /\ frPc = "fetching"
    /\ \E body \in Bodies429 :
        IF ~body.parsable
        THEN FetchCatch(PlainError("SyntaxError", MsgUnexpectedToken), "429")
        ELSE /\ attemptLog' = Append(attemptLog,
                                     Attempt(frI, frStart, now, "429", body.retry_after))
             /\ frPc' = "sleeping"
             /\ frWakeAt' = now + RetryAfterDelay(body, frI)
             /\ UNCHANGED <<now, endpoint, frI, frStart, frResult, apiVars, notFetch>>

\* fetch() resolves with any other status: the response is returned
FetchResponds ==
    /\ frPc = "fetching"
    /\ \E status \in Statuses :
        /\ attemptLog' = Append(attemptLog, Attempt(frI, frStart, now, "response", None))
        /\ frPc' = "returned"
        /\ frResult' = FrResult("response", status, NoError)
    /\ UNCHANGED <<now, endpoint, frI, frStart, frWakeAt, apiVars, notFetch>>

\* sleep() resolves: i++ and the next iteration, or the end of the loop (undefined)
SleepDone ==
    /\ frPc = "sleeping"
    /\ now >= frWakeAt
    /\ frI' = frI + 1
    /\ IF LoopContinues(frI + 1)
       THEN /\ frPc' = "fetching"
            /\ frStart' = now
            /\ UNCHANGED frResult
       ELSE /\ frPc' = "returned"
            /\ frResult' = FrResult("undefined", 0, NoError)
            /\ UNCHANGED frStart
    /\ UNCHANGED <<now, endpoint, frWakeAt, attemptLog, apiVars, notFetch>>

FrSettled == frPc \in {"returned", "thrown"}

----------------------------------------------------------------------------
\* fetchApiData

ApiOut(kind, data, err) == [kind |-> kind, data |-> data, error |-> err]
ApiPending == ApiOut("none", <<>>, NoError)

\* Mutant: the catch block rethrows whatever it caught
fetchApiDataCatch_Rethrow(err) == err

\* The catch block of fetchApiData
fetchApiDataCatch(err) ==
    IF err.class = "ApiError"
    THEN err
    ELSE ApiError([type |-> Some("CLIENT_ERROR"), message |-> err.message,
                   retry_after |-> None])

\* handleApiResponse: what it returns or throws for a response and its body
handleApiResponse(response, body) ==
    IF response.kind = "undefined"
    THEN ApiOut("err", <<>>, PlainError("TypeError", MsgCannotRead))
    ELSE IF ~body.parsable
    THEN ApiOut("err", <<>>, PlainError("SyntaxError", MsgUnexpectedToken))
    ELSE IF body.success
    THEN ApiOut("ok", body.data, NoError)
    ELSE IF ~IsSome(body.error)
    THEN ApiOut("err", <<>>, PlainError("TypeError", MsgCannotRead))
    ELSE ApiOut("err", <<>>, ApiError(Val(body.error)))

\* Mutant: the timer is set to twice the configured time
timeoutDue_Late == apiPc = "racing" /\ now >= 2 * apiTimeout

\* The timer of timeout(): rejects the race when fetchWithRetry has not settled
timeoutDue == apiPc = "racing" /\ now >= apiTimeout

\* Promise.race settles with fetchWithRetry's outcome
RaceSettles ==
    /\ apiPc = "racing"
    /\ FrSettled
    /\ IF frPc = "returned"
       THEN /\ apiPc' = "parsing"
            /\ UNCHANGED <<apiOut, apiCause>>
       ELSE /\ apiPc' = "rejected"
            /\ apiCause' = frResult.error
            /\ apiOut' = ApiOut("err", <<>>, fetchApiDataCatch(frResult.error))
    /\ UNCHANGED <<now, endpoint, frVars, timedOut, apiBody, notFetch>>

\* The timer of timeout() fires first
TimeoutFires ==
    /\ timeoutDue
    /\ ~FrSettled
    /\ apiPc' = "rejected"
    /\ apiCause' = PlainError("Error", MsgTimeout)
    /\ apiOut' = ApiOut("err", <<>>, fetchApiDataCatch(PlainError("Error", MsgTimeout)))
    /\ timedOut' = TRUE
    /\ UNCHANGED <<now, endpoint, frVars, apiBody, notFetch>>

\* await handleApiResponse(response), then the return or the catch block
ResponseHandled ==
    /\ apiPc = "parsing"
    /\ \E body \in Bodies(endpoint) :
        LET r == handleApiResponse(frResult, body) IN
        /\ apiBody' = (IF frResult.kind = "undefined" THEN None ELSE Some(body))
        /\ IF r.kind = "ok"
           THEN /\ apiPc' = "resolved"
                /\ apiOut' = r
                /\ UNCHANGED apiCause
           ELSE /\ apiPc' = "rejected"
                /\ apiCause' = r.error
                /\ apiOut' = ApiOut("err", <<>>, fetchApiDataCatch(r.error))
    /\ UNCHANGED <<now, endpoint, frVars, timedOut, notFetch>>

\* Time passes; a timer that is due fires before the clock moves on, and a settled
\* promise is delivered before any timer
Tick ==
    /\ now < MaxTime
    /\ ~(frPc = "sleeping" /\ now >= frWakeAt)
    /\ ~timeoutDue
    /\ ~(apiPc = "racing" /\ FrSettled)
    /\ now' = now + baseDelay
    /\ UNCHANGED <<endpoint, frVars, apiVars, notFetch>>

\* fetchApiData(endpoint) is called: the first fetch goes out and the timer is set
FetchStarted(ep) ==
    /\ now = 0
    /\ endpoint = ep
    /\ frPc = "fetching"
    /\ frI = 0
    /\ frStart = 0
    /\ frWakeAt = 0
    /\ frResult = FrNone
    /\ attemptLog = <<>>
    /\ apiPc = "racing"
    /\ apiOut = ApiPending
    /\ timedOut = FALSE
    /\ apiCause = NoError
    /\ apiBody = None

\* No fetchApiData invocation
FetchIdle ==
    /\ now = 0
    /\ endpoint = "none"
    /\ frPc = "idle"
    /\ frI = 0
    /\ frStart = 0
    /\ frWakeAt = 0
    /\ frResult = FrNone
    /\ attemptLog = <<>>
    /\ apiPc = "idle"
    /\ apiOut = ApiPending
    /\ timedOut = FALSE
    /\ apiCause = NoError
    /\ apiBody = None

----------------------------------------------------------------------------
\* DataLoader: parseDate, transformEvent, loadInitialData

DateVal(kind, year) == [kind |-> kind, year |-> year]
NullDate == DateVal("null", 0)
InvalidDate == DateVal("invalid", 0)

\* new Date(dateStr): ISO dates parse, anything else is an Invalid Date
NewDate(s) ==
    CASE s = "1000-01-01" -> DateVal("date", 1000)
      [] s = "1200-01-01" -> DateVal("date", 1200)
      [] s = "1500-01-01" -> DateVal("date", 1500)
      [] s = "2000-01-01" -> DateVal("date", 2000)
      [] OTHER -> InvalidDate

parseDate(dateStr) ==
    IF dateStr = "" THEN NullDate
    ELSE IF NewDate(dateStr).kind = "invalid" THEN NullDate
    ELSE NewDate(dateStr)

\* a || b on an optional value
OrElse(o, default) == IF IsSome(o) THEN Val(o) ELSE default

transformEvent(event) ==
    [id |-> event.id,
     title |-> IF event.title.zh # "" THEN event.title.zh ELSE event.title.en,
     startDate |-> parseDate(event.date.start),
     endDate |-> parseDate(event.date.end),
     location |-> [coordinates |-> event.location.coordinates,
                   zoomLevel |-> event.location.zoomLevel,
                   highlightColor |-> OrElse(event.location.highlightColor, "#FF0000")],
     contentRefs |-> [articles |-> OrElse(event.articles, <<>>),
                      images |-> OrElse(event.images, <<>>)]]

\* Mutant: events of exactly the requested zoom level are dropped
zoomFilter_Strict(event, zoom) ==
    zoom = 0 \/ event.location.zoomLevel < zoom

\* The filter of loadInitialData
zoomFilter(event, zoom) ==
    zoom = 0 \/ event.location.zoomLevel <= zoom

MapSeq(f(_), seq) == [k \in 1..Len(seq) |-> f(seq[k])]

\* What loadInitialData returns once its three loads have delivered
loadInitialData(rawEvents, periods, rawRegions, zoom) ==
    LET Keep(e) == zoomFilter(e, zoom)
        filteredEvents == SelectSeq(rawEvents, Keep)
    IN  [events |-> MapSeq(transformEvent, filteredEvents),
         periods |-> periods,
         regions |-> rawRegions]

\* The loader of TimelineController.js (mock data only): its parseDate takes a
\* leading "-" for a year before the common era and never returns null
parseDateMock(dateStr) ==
    IF dateStr = "-0500-01-01" THEN DateVal("date", 0 - 500) ELSE NewDate(dateStr)

transformEventMock(event) ==
    [id |-> event.id,
     title |-> IF event.title.zh # "" THEN event.title.zh ELSE event.title.en,
     startDate |-> parseDateMock(event.date.start),
     endDate |-> parseDateMock(event.date.end),
     location |-> [coordinates |-> event.location.coordinates,
                   zoomLevel |-> event.location.zoomLevel,
                   highlightColor |-> "#FF0000"],
     contentRefs |-> [articles |-> <<>>,
                      images |-> OrElse(event.images, <<>>)]]

loadInitialDataMock(rawEvents, periods, zoom) ==
    LET Keep(e) == zoomFilter(e, zoom)
        filteredEvents == SelectSeq(rawEvents, Keep)
    IN  [events |-> MapSeq(transformEventMock, filteredEvents),
         periods |-> periods,
         regions |-> <<>>]

\* loadInitialData(zoomLevel) of DataLoader returns
LoadReturns ==
    /\ ldResult = None
    /\ \E pe \in PeriodPayloads, re \in RegionPayloads :
        ldResult' = Some([variant |-> "DataLoader", periods |-> pe, regions |-> re,
                          value |-> loadInitialData(ldEvents, pe, re, ldZoom)])
    /\ UNCHANGED <<ldEvents, ldZoom, fetchVars, loadVars, appVars, perfVars, earthVars, moreVars>>

\* loadInitialData(zoomLevel) of TimelineController returns
LoadReturnsMock ==
    /\ ldResult = None
    /\ \E pe \in PeriodPayloads :
        ldResult' = Some([variant |-> "TimelineController", periods |-> pe,
                          regions |-> <<>>,
                          value |-> loadInitialDataMock(ldEvents, pe, ldZoom)])
    /\ UNCHANGED <<ldEvents, ldZoom, fetchVars, loadVars, appVars, perfVars, earthVars, moreVars>>

----------------------------------------------------------------------------
\* App

defaultRetryAfter == 60

ErrorScreen(title, retry) == Some([title |-> title, retry |-> retry])
Notification(open, severity) == [open |-> open, severity |-> severity]

UiState(err, note, countdown, tm) ==
    [error |-> err, notification |-> note, retryCountdown |-> countdown, timers |-> tm]

\* error.details?.retry_after || 60
retryAfterOf(e) ==
    IF IsSome(e.retry_after) /\ Val(e.retry_after) # 0
    THEN Val(e.retry_after)
    ELSE defaultRetryAfter

\* Mutant: a VALIDATION_ERROR is shown as a blocking error as well
handleError_Both(e, ui) ==
    IF e.type = Some("DATABASE_ERROR")
    THEN [ui EXCEPT !.error = ErrorScreen("databaseError", TRUE)]
    ELSE IF e.type = Some("VALIDATION_ERROR")
    THEN [ui EXCEPT !.notification = Notification(TRUE, "warning"),
                    !.error = ErrorScreen("error", TRUE)]
    ELSE IF e.type = Some("CLIENT_ERROR")
    THEN IF includes(e.message, <<"timeout">>)
         THEN [ui EXCEPT !.error = ErrorScreen("timeoutError", TRUE)]
         ELSE IF includes(e.message, MsgTooMany)
         THEN [ui EXCEPT !.retryCountdown = Some(retryAfterOf(e)),
                         !.error = ErrorScreen("rateLimitError", FALSE),
                         !.timers = @ + 1]
         ELSE [ui EXCEPT !.notification = Notification(TRUE, "error")]
    ELSE [ui EXCEPT !.error = ErrorScreen("error", TRUE)]

\* handleError: the state it leaves, from the state it finds
handleError(e, ui) ==
    IF e.type = Some("DATABASE_ERROR")
    THEN [ui EXCEPT !.error = ErrorScreen("databaseError", TRUE)]
    ELSE IF e.type = Some("VALIDATION_ERROR")
    THEN [ui EXCEPT !.notification = Notification(TRUE, "warning")]
    ELSE IF e.type = Some("CLIENT_ERROR")
    THEN IF includes(e.message, <<"timeout">>)
         THEN [ui EXCEPT !.error = ErrorScreen("timeoutError", TRUE)]
         ELSE IF includes(e.message, MsgTooMany)
         THEN [ui EXCEPT !.retryCountdown = Some(retryAfterOf(e)),
                         !.error = ErrorScreen("rateLimitError", FALSE),
                         !.timers = @ + 1]
         ELSE [ui EXCEPT !.notification = Notification(TRUE, "error")]
    ELSE [ui EXCEPT !.error = ErrorScreen("error", TRUE)]

\* Everything but the page and its requests
notPage == <<ldVars, perfVars, earthVars, moreVars>>

\* The state handleError and the countdown timer work on
Ui == UiState(error, notification, retryCountdown, timers)

SetUi(ui) ==
    /\ error' = ui.error
    /\ notification' = ui.notification
    /\ retryCountdown' = ui.retryCountdown
    /\ timers' = ui.timers

\* Mutant: the countdown stops one second late
countdownStep_Late(ui) ==
    IF ~IsSome(ui.retryCountdown) \/ Val(ui.retryCountdown) <= 0
    THEN [ui EXCEPT !.timers = @ - 1, !.error = None, !.retryCountdown = None]
    ELSE [ui EXCEPT !.retryCountdown = Some(Val(@) - 1)]

\* The callback of the setInterval timer: setRetryCountdown(prev => ...)
countdownStep(ui) ==
    IF ~IsSome(ui.retryCountdown) \/ Val(ui.retryCountdown) <= 1
    THEN [ui EXCEPT !.timers = @ - 1, !.error = None, !.retryCountdown = None]
    ELSE [ui EXCEPT !.retryCountdown = Some(Val(@) - 1)]

\* Mutant: the loads that succeeded are returned although another one failed
loadInitialDataOutcomes_Partial(rejs, data, zoom) ==
    {[ok |-> TRUE,
      value |-> loadInitialData(data.events, data.periods, data.regions, zoom),
      error |-> NoError]}

\* How loadInitialData settles once its three loads have: Promise.all rejects with
\* the earliest rejection, which may be any of them, and the catch block rethrows it
loadInitialDataOutcomes(rejs, data, zoom) ==
    IF rejs = {}
    THEN {[ok |-> TRUE,
           value |-> loadInitialData(data.events, data.periods, data.regions, zoom),
           error |-> NoError]}
    ELSE {[ok |-> FALSE,
           value |-> loadInitialData(<<>>, <<>>, <<>>, zoom),
           error |-> e] : e \in rejs}

\* Mutant: no finally block, loading is reset in the try body only
fetchDataSettled_NoFinally(result, app) ==
    IF result.ok
    THEN [app EXCEPT !.events = result.value.events,
                     !.regions = result.value.regions,
                     !.loading = FALSE]
    ELSE [app EXCEPT !.ui = handleError(result.error, app.ui)]

\* What the fetchData effect does when loadInitialData() settles: the try body,
\* the catch block and the finally block
fetchDataSettled(result, app) ==
    IF result.ok
    THEN [app EXCEPT !.events = result.value.events,
                     !.regions = result.value.regions,
                     !.loading = FALSE]
    ELSE [app EXCEPT !.ui = handleError(result.error, app.ui),
                     !.loading = FALSE]

AppState == [events |-> events, regions |-> regions, loading |-> loading, ui |-> Ui]

SetApp(app) ==
    /\ events' = app.events
    /\ regions' = app.regions
    /\ loading' = app.loading
    /\ SetUi(app.ui)

NoData == [events |-> <<>>, periods |-> <<>>, regions |-> <<>>]

\* Every way one fetchApiData(ep) call can settle: through handleApiResponse of a
\* response or of the undefined that fetchWithRetry returns when its loop runs out,
\* or through the catch block with the timeout, a network failure or an unreadable
\* 429 body
ApiOutcomes(ep) ==
    LET Through(r) ==
            IF r.kind = "ok" THEN r ELSE ApiOut("err", <<>>, fetchApiDataCatch(r.error))
    IN  {Through(handleApiResponse(FrResult("response", 200, NoError), body)) :
            body \in Bodies(ep)}
        \cup {Through(handleApiResponse(FrResult("undefined", 0, NoError),
                                        Body(FALSE, FALSE, <<>>, None)))}
        \cup {ApiOut("err", <<>>, fetchApiDataCatch(e)) :
                e \in {PlainError("Error", MsgTimeout),
                       PlainError("TypeError", MsgFailedToFetch),
                       PlainError("SyntaxError", MsgUnexpectedToken)}}

\* Every way one fetchData(file) call of mock mode can settle: the file's content,
\* or a plain error (the file is missing, the network failed, the file is no JSON)
MockOutcomes(ep) ==
    {ApiOut("ok", d, NoError) : d \in Payloads(ep)}
    \cup {ApiOut("err", <<>>, e) :
            e \in {PlainError("Error", <<"Failed", "to", "load", "mock", "data">>),
                   PlainError("TypeError", MsgFailedToFetch),
                   PlainError("SyntaxError", MsgUnexpectedToken)}}

Outcomes(ep) == IF useMockData THEN MockOutcomes(ep) ELSE ApiOutcomes(ep)

NextEndpoint(ep) == IF ep = "events" THEN "periods" ELSE "regions"

DataWith(ep, out) ==
    IF out.kind = "ok" THEN [loadData EXCEPT ![ep] = out.data] ELSE loadData

RejsWith(out) ==
    IF out.kind = "err" THEN loadRejs \cup {out.error} ELSE loadRejs

\* One of the first two loads of loadInitialData has settled
RequestSettles ==
    /\ loadPc \in {"events", "periods"}
    /\ \E out \in Outcomes(loadPc) :
        /\ loadData' = DataWith(loadPc, out)
        /\ loadRejs' = RejsWith(out)
    /\ loadPc' = NextEndpoint(loadPc)
    /\ UNCHANGED <<fetchVars, useMockData, handled, appVars, notPage>>

\* The last load has settled: Promise.all settles, loadInitialData returns or
\* throws, and the fetchData effect of App runs to its end
LoadSettles ==
    /\ loadPc = "regions"
    /\ \E out \in Outcomes(loadPc) :
        /\ loadData' = DataWith(loadPc, out)
        /\ loadRejs' = RejsWith(out)
        /\ \E result \in loadInitialDataOutcomes(RejsWith(out), DataWith(loadPc, out), 0) :
            /\ SetApp(fetchDataSettled(result, AppState))
            /\ handled' = IF result.ok THEN None ELSE Some(result.error)
    /\ loadPc' = "idle"
    /\ UNCHANGED <<fetchVars, useMockData, loads, notPage>>

\* The interval timer of handleError fires, one second after the last time
CountdownTick ==
    /\ timers > 0
    /\ SetUi(countdownStep(Ui))
    /\ UNCHANGED <<fetchVars, loadVars, events, regions, loading, loads, notPage>>

\* The Snackbar closes (by its button or after autoHideDuration)
CloseNotification ==
    /\ ~loading
    /\ ~IsSome(error)
    /\ notification.open
    /\ notification' = [notification EXCEPT !.open = FALSE]
    /\ UNCHANGED <<fetchVars, loadVars, events, regions, loading, error, retryCountdown,
                   timers, loads, notPage>>

\* The effect [handleError] runs: setLoading(true), setError(null), loadInitialData()
EffectRuns ==
    /\ loading' = TRUE
    /\ error' = None
    /\ loadPc' = "events"
    /\ loadData' = NoData
    /\ loadRejs' = {}
    /\ handled' = None
    /\ UNCHANGED <<fetchVars, useMockData, events, regions, notification, retryCountdown,
                   timers, notPage>>

\* The language is changed in the settings dialog: t changes, so handleError does,
\* and the effect that depends on it runs again
ChangeLanguage ==
    /\ ~loading
    /\ ~IsSome(error)
    /\ loads < MaxLoads
    /\ loads' = loads + 1
    /\ EffectRuns

\* The page as the browser has just loaded it, the effect started
PageLoaded(mock) ==
    /\ useMockData = mock
    /\ loadPc = "events"
    /\ loadData = NoData
    /\ loadRejs = {}
    /\ handled = None
    /\ events = <<>>
    /\ regions = <<>>
    /\ loading = TRUE
    /\ error = None
    /\ notification = Notification(FALSE, "info")
    /\ retryCountdown = None
    /\ timers = 0
    /\ loads = 1

\* The retry button: handleRetry reloads the page
HandleRetry ==
    /\ ~loading
    /\ IsSome(error)
    /\ Val(error).retry
    /\ loadPc' = "events"
    /\ loadData' = NoData
    /\ loadRejs' = {}
    /\ handled' = None
    /\ events' = <<>>
    /\ regions' = <<>>
    /\ loading' = TRUE
    /\ error' = None
    /\ notification' = Notification(FALSE, "info")
    /\ retryCountdown' = None
    /\ timers' = 0
    /\ loads' = 1
    /\ UNCHANGED <<fetchVars, useMockData, notPage>>

----------------------------------------------------------------------------
\* utils/DataLoader.js: PerformanceMonitor

maxDurations == 100

MaxCalls == 102          \* recordings of the API metric
MaxHealthChecks == 2     \* recordings of the health-check metric
MaxErrors == 1           \* failed API calls

ApiEndpoint == "get /api/events"
HealthCheck == "health_check"
MetricNames == {ApiEndpoint, HealthCheck}

\* The values recorded
Durations == {1, 2}

FreshMetric == [calls |-> 0, totalDuration |-> 0, errors |-> 0, durations |-> <<>>]

\* this.metrics.get(key) || { calls: 0, ... }
metricsGet(mt, key) == IF IsSome(mt[key]) THEN Val(mt[key]) ELSE FreshMetric

\* Mutant: the list of durations is never shortened
recordApiCall_NoShift(mt, key, duration, err) ==
    LET metric == metricsGet(mt, key)
    IN  [mt EXCEPT ![key] = Some([metric EXCEPT
                                    !.calls = @ + 1,
                                    !.totalDuration = @ + duration,
                                    !.durations = Append(@, duration),
                                    !.errors = IF err THEN @ + 1 ELSE @])]

recordApiCall(mt, key, duration, err) ==
    LET metric == metricsGet(mt, key)
        pushed == [metric EXCEPT !.calls = @ + 1,
                                 !.totalDuration = @ + duration,
                                 !.durations = Append(@, duration),
                                 !.errors = IF err THEN @ + 1 ELSE @]
        shifted == IF Len(pushed.durations) > maxDurations
                   THEN [pushed EXCEPT !.durations = Tail(@)]
                   ELSE pushed
    IN  [mt EXCEPT ![key] = Some(shifted)]

recordMetric(mt, name, value) ==
    LET metric == metricsGet(mt, name)
        pushed == [metric EXCEPT !.calls = @ + 1,
                                 !.totalDuration = @ + value,
                                 !.durations = Append(@, value)]
        shifted == IF Len(pushed.durations) > maxDurations
                   THEN [pushed EXCEPT !.durations = Tail(@)]
                   ELSE pushed
    IN  [mt EXCEPT ![name] = Some(shifted)]

notPerf == <<fetchVars, loadVars, appVars, ldVars, earthVars, moreVars>>

\* To keep the recordings of a metric finite in number, a value is never smaller
\* than the one recorded before it for the same metric
NotSmaller(name, value) ==
    IF recorded[name] = <<>> THEN TRUE
    ELSE value >= recorded[name][Len(recorded[name])]

\* The axios response interceptor: a request to the API has finished or failed
RecordApiCall ==
    \E duration \in Durations, err \in BOOLEAN :
        /\ Len(recorded[ApiEndpoint]) < MaxCalls
        /\ NotSmaller(ApiEndpoint, duration)
        /\ err => metricsGet(metrics, ApiEndpoint).errors < MaxErrors
        /\ metrics' = recordApiCall(metrics, ApiEndpoint, duration, err)
        /\ recorded' = [recorded EXCEPT ![ApiEndpoint] = Append(@, duration)]
        /\ UNCHANGED notPerf

\* The health check has measured its round trip
RecordMetric ==
    \E value \in Durations :
        /\ Len(recorded[HealthCheck]) < MaxHealthChecks
        /\ NotSmaller(HealthCheck, value)
        /\ metrics' = recordMetric(metrics, HealthCheck, value)
        /\ recorded' = [recorded EXCEPT ![HealthCheck] = Append(@, value)]
        /\ UNCHANGED notPerf

NoMetrics == [name \in MetricNames |-> None]
NothingRecorded == [name \in MetricNames |-> <<>>]

\* cleanup(): this.metrics.clear()
Cleanup ==
    /\ metrics # NoMetrics
    /\ metrics' = NoMetrics
    /\ recorded' = NothingRecorded
    /\ UNCHANGED notPerf

----------------------------------------------------------------------------
\* components/Earth3D.js: the markers of the globe

MaxShown == 2            \* events in the events prop

\* The values of the currentDate prop (years)
Years == {900, 1100, 1300, 1600}

\* camera.position.z, in tenths
CameraPositions == {-20, 20, 25, 35, 45, 50, 100}

EventIds == {e.id : e \in RawEvents}

\* The events prop: what App got from loadInitialData
EventLists == {MapSeq(transformEvent, l) : l \in SeqsUpTo(RawEvents, MaxShown)}

Max(a, b) == IF a >= b THEN a ELSE b

\* Math.max(0, Math.floor(5 - camera.position.z))
newZoomOf(z) == Max(0, (50 - z) \div 10)

\* new Date(d) <= currentDate and new Date(d) >= currentDate: new Date(null) is the
\* epoch, and a comparison with an Invalid Date is false
epochYear == 1970
yearOf(d) == IF d.kind = "null" THEN epochYear ELSE d.year
notAfter(d, date) == d.kind # "invalid" /\ yearOf(d) <= date
notBefore(d, date) == d.kind # "invalid" /\ yearOf(d) >= date

isVisible(event, date, zoom) ==
    /\ event.location.zoomLevel <= zoom
    /\ notAfter(event.startDate, date)
    /\ notBefore(event.endDate, date)

\* The visibleEvents constant of an effect run
visibleEventsOf(evts, date, zoom) ==
    LET Shown(event) == isVisible(event, date, zoom)
    IN  IF zoom > 0 THEN SelectSeq(evts, Shown) ELSE <<>>

CountOf(ids, id) == Cardinality({k \in 1..Len(ids) : ids[k] = id})

idOf(event) == event.id

\* updateMarkers(): the markers of markersRef leave the globe, one per visible event
\* is added
updateMarkers(earth, markers, visible) ==
    [id \in EventIds |->
        Max(0, earth[id] - CountOf(markers, id)) + CountOf(MapSeq(idOf, visible), id)]

notEarth == <<fetchVars, loadVars, appVars, ldVars, perfVars, moreVars>>

\* The effect with dependencies [currentDate, events, timezone, rotationSpeed] runs
\* after a render with the given props: it computes visibleEvents from the props and
\* the zoomLevel state of that render and calls updateMarkers()
EffectRunsWith(evts, date) ==
    LET visible == visibleEventsOf(evts, date, zoomLevel)
    IN  /\ visibleEvents' = visible
        /\ earthMarkers' = updateMarkers(earthMarkers, markersRef, visible)
        /\ markersRef' = MapSeq(idOf, visible)

\* The timeline moves currentDate
SetCurrentDate ==
    \E date \in Years \ {currentDate} :
        /\ currentDate' = date
        /\ EffectRunsWith(e3Events, date)
        /\ UNCHANGED <<e3Events, zoomLevel, notEarth>>

\* App passes another list of events
SetEvents ==
    \E evts \in EventLists \ {e3Events} :
        /\ e3Events' = evts
        /\ EffectRunsWith(evts, currentDate)
        /\ UNCHANGED <<currentDate, zoomLevel, notEarth>>

\* The 'change' listener of the controls. It was created by the effect of the first
\* render, so the zoomLevel it compares with is the one of that render, 0. The
\* marker effect does not depend on zoomLevel and does not run.
ControlsChange ==
    \E z \in CameraPositions :
        LET newZoom == newZoomOf(z)
        IN  /\ zoomLevel' = IF newZoom # 0 THEN newZoom ELSE zoomLevel
            /\ UNCHANGED <<e3Events, currentDate, visibleEvents, markersRef,
                           earthMarkers, notEarth>>

\* animate(): the throttled updateMarkers() of the effect run last, with the
\* visibleEvents of that run
AnimationFrame ==
    /\ earthMarkers' = updateMarkers(earthMarkers, markersRef, visibleEvents)
    /\ markersRef' = MapSeq(idOf, visibleEvents)
    /\ UNCHANGED <<e3Events, currentDate, zoomLevel, visibleEvents, notEarth>>

----------------------------------------------------------------------------
\* components/Admin/AdminPanel.js and EventTable.js

MaxAdminEvents == 2      \* events the admin panel loads
MaxDeletes == 2          \* onDelete calls

\* An event as GET /events delivers it. EventTable reads title[i18n.language] and
\* date.start / date.end; handleSearch and EventForm read a string title and
\* startDate / endDate. A field a record lacks is absent (undefined).
AdminEvent(id, titleKind, text, period, startDate, endDate, date) ==
    [id |-> id, title |-> [kind |-> titleKind, text |-> text], period |-> period,
     startDate |-> startDate, endDate |-> endDate, date |-> date]

DateRange(start, end) == Some([start |-> start, end |-> end])

\* Two events in the shape EventTable reads, one with the fields of both shapes and
\* one in the shape handleSearch reads
adN1 == AdminEvent("n1", "object", <<"Roman", "Empire">>, "ancient", None, None,
                   DateRange("1000-01-01", "1500-01-01"))
adN2 == AdminEvent("n2", "object", <<"Great", "Wall">>, "medieval", None, None,
                   DateRange("1200-01-01", "2000-01-01"))
adH == AdminEvent("h", "string", <<"Roman", "Empire">>, "ancient",
                  Some("1000-01-01"), Some("1500-01-01"),
                  DateRange("1000-01-01", "1500-01-01"))
adF == AdminEvent("f", "string", <<"Great", "Wall">>, "medieval",
                  Some("1200-01-01"), Some("2000-01-01"), None)

AdminEvents == {adN1, adN2, adH, adF}
AdminEventLists == SeqsUpTo(AdminEvents, MaxAdminEvents)

\* What the search form can hold
SearchTitles == {<<>>, <<"Roman">>}
SearchPeriods == {"", "ancient"}
SearchStartDates == {"", "1200-01-01"}
SearchEndDates == {"", "1500-01-01"}
SearchValues(field) ==
    CASE field = "title" -> SearchTitles
      [] field = "period" -> SearchPeriods
      [] field = "startDate" -> SearchStartDates
      [] field = "endDate" -> SearchEndDates
SearchFields == {"title", "period", "startDate", "endDate"}

NoSearch == [title |-> <<>>, period |-> "", startDate |-> "", endDate |-> ""]

\* new Date(x) of a field that may be undefined
newDateOf(o) == IF IsSome(o) THEN NewDate(Val(o)) ELSE InvalidDate

\* a >= b and a <= b on Dates: false when either is an Invalid Date
dateGeq(a, b) == a.kind = "date" /\ b.kind = "date" /\ a.year >= b.year
dateLeq(a, b) == a.kind = "date" /\ b.kind = "date" /\ a.year <= b.year

\* event.title.includes(searchParams.title) is evaluated and title is no string:
\* TypeError, includes is not a function
searchThrows(event, sp) == sp.title # <<>> /\ event.title.kind # "string"

\* The callback of events.filter in handleSearch
searchMatches(event, sp) ==
    /\ sp.title = <<>> \/ includes(event.title.text, sp.title)
    /\ sp.period = "" \/ event.period = sp.period
    /\ sp.startDate = "" \/ dateGeq(newDateOf(event.startDate), NewDate(sp.startDate))
    /\ sp.endDate = "" \/ dateLeq(newDateOf(event.endDate), NewDate(sp.endDate))

\* handleSearch on the events tab: the new filteredEvents, or nothing when the
\* filter callback threw
handleSearch(evts, sp) ==
    LET Matches(event) == searchMatches(event, sp)
    IN  IF \E k \in 1..Len(evts) : searchThrows(evts[k], sp)
        THEN None
        ELSE Some(SelectSeq(evts, Matches))

\* a[i18n.language].localeCompare(b[i18n.language]) for the titles of the model
titleRank(text) == IF text = <<"Great", "Wall">> THEN 1 ELSE 2
localeCompare(a, b) == titleRank(a) - titleRank(b)

\* The comparator of events.sort for orderBy = 'title'
sortCompare(a, b, ord) ==
    IF ord = "asc" THEN localeCompare(a.title.text, b.title.text)
    ELSE localeCompare(b.title.text, a.title.text)

\* Array.prototype.sort (stable) with that comparator
RECURSIVE sortedEvents(_, _)
sortedEvents(list, ord) ==
    IF Len(list) <= 1 THEN list
    ELSE LET init == sortedEvents(SubSeq(list, 1, Len(list) - 1), ord)
             x == list[Len(list)]
             before == {k \in 1..Len(init) : sortCompare(init[k], x, ord) <= 0}
             n == Cardinality({k \in 1..Len(init) :
                                 \A j \in 1..k : j \in before})
         IN  SubSeq(init, 1, n) \o <<x>> \o SubSeq(init, n + 1, Len(init))

\* A render of EventTable throws: the comparator reads title[i18n.language] of a
\* string title (undefined.localeCompare), or a row reads event.date.start of an
\* event without date
tableThrows(list) ==
    \/ Len(list) >= 2 /\ \E k \in 1..Len(list) : list[k].title.kind # "object"
    \/ \E k \in 1..Len(list) : ~IsSome(list[k].date)

notAdmin == <<fetchVars, loadVars, appVars, ldVars, perfVars, earthVars, formVars,
              heError>>

\* AdminPanel renders with the given state. On the events tab EventTable sorts its
\* events prop in place: filteredEvents, and with it events when both are one array.
Rendered(tab, evts, filtered, aliased, ord) ==
    IF tab # "events"
    THEN /\ adEvents' = evts
         /\ adFilteredEvents' = filtered
         /\ adCrashed' = FALSE
    ELSE IF tableThrows(filtered)
    THEN /\ adEvents' = evts
         /\ adFilteredEvents' = filtered
         /\ adCrashed' = TRUE
    ELSE /\ adFilteredEvents' = sortedEvents(filtered, ord)
         /\ adEvents' = IF aliased THEN sortedEvents(filtered, ord) ELSE evts
         /\ adCrashed' = FALSE

\* An onDelete call that awaits its DELETE request holds the events and
\* filteredEvents arrays of the render it was made in. events is the array the
\* state still holds. filteredEvents is that same array ("events"), the array the
\* filteredEvents state holds ("current"), or an array the state has let go of
\* since, which no render sorts any more ("old", with its elements).
PendingDelete(id, ref, old) == [id |-> id, ref |-> ref, old |-> old]

\* setFilteredEvents with another array while a delete is pending
detached(pending, filtered) ==
    IF IsSome(pending) /\ Val(pending).ref = "current"
    THEN Some(PendingDelete(Val(pending).id, "old", filtered))
    ELSE pending

\* The filteredEvents array a pending onDelete holds, as it is now
pendingFiltered(pending, evts, filtered) ==
    CASE pending.ref = "events" -> evts
      [] pending.ref = "current" -> filtered
      [] pending.ref = "old" -> pending.old

\* The panel is on screen and no dialog covers it
PanelUsable == ~adCrashed /\ ~deleteDialogOpen

\* The effect of AdminPanel: GET /events has delivered
AdminLoaded ==
    /\ adLastOp = "none"
    /\ \E list \in AdminEventLists :
        Rendered(activeTab, list, list, TRUE, order)
    /\ adAliased' = TRUE
    /\ adLastOp' = "load"
    /\ UNCHANGED <<activeTab, searchParams, delPending, order, deleteDialogOpen,
                   eventToDelete, deleteCalls, lastClicked, notAdmin>>

\* A field of the search form is edited
SetSearchParams ==
    /\ PanelUsable
    /\ \E field \in SearchFields :
        \E value \in SearchValues(field) \ {searchParams[field]} :
            searchParams' = [searchParams EXCEPT ![field] = value]
    /\ adLastOp' = "params"
    /\ UNCHANGED <<activeTab, adEvents, adFilteredEvents, adAliased, adCrashed, delPending,
                   order, deleteDialogOpen, eventToDelete, deleteCalls, lastClicked,
                   notAdmin>>

\* The search button
HandleSearch ==
    /\ PanelUsable
    /\ IF activeTab = "events" /\ IsSome(handleSearch(adEvents, searchParams))
       THEN /\ Rendered(activeTab, adEvents, Val(handleSearch(adEvents, searchParams)),
                        FALSE, order)
            /\ adAliased' = FALSE
            /\ delPending' = detached(delPending, adFilteredEvents)
       ELSE UNCHANGED <<adEvents, adFilteredEvents, adAliased, adCrashed, delPending>>
    /\ adLastOp' = "search"
    /\ UNCHANGED <<activeTab, searchParams, order, deleteDialogOpen,
                   eventToDelete, deleteCalls, lastClicked, notAdmin>>

\* The reset button
HandleReset ==
    /\ PanelUsable
    /\ searchParams' = NoSearch
    /\ Rendered(activeTab, adEvents, adEvents, TRUE, order)
    /\ adAliased' = TRUE
    /\ delPending' = IF adAliased THEN delPending
                     ELSE detached(delPending, adFilteredEvents)
    /\ adLastOp' = "reset"
    /\ UNCHANGED <<activeTab, order, deleteDialogOpen, eventToDelete,
                   deleteCalls, lastClicked, notAdmin>>

Tabs == {"events", "periods", "regions"}

HandleTabChange ==
    /\ PanelUsable
    /\ \E newValue \in Tabs \ {activeTab} :
        /\ activeTab' = newValue
        /\ Rendered(newValue, adEvents, adFilteredEvents, adAliased, order)
    /\ adLastOp' = "tab"
    /\ UNCHANGED <<adAliased, searchParams, delPending, order, deleteDialogOpen,
                   eventToDelete, deleteCalls, lastClicked, notAdmin>>

\* handleRequestSort('title'), the column the table is sorted by
handleRequestSort(ord) == IF ord = "asc" THEN "desc" ELSE "asc"

HandleRequestSort ==
    /\ PanelUsable
    /\ activeTab = "events"
    /\ order' = handleRequestSort(order)
    /\ Rendered(activeTab, adEvents, adFilteredEvents, adAliased, handleRequestSort(order))
    /\ adLastOp' = "sort"
    /\ UNCHANGED <<activeTab, adAliased, searchParams, delPending, deleteDialogOpen,
                   eventToDelete, deleteCalls, lastClicked, notAdmin>>

\* The delete dialog of EventTable and the calls of onDelete
TableState(open, toDelete, calls) ==
    [deleteDialogOpen |-> open, eventToDelete |-> toDelete, deleteCalls |-> calls]

Table == TableState(deleteDialogOpen, eventToDelete, deleteCalls)

SetTable(tbl) ==
    /\ deleteDialogOpen' = tbl.deleteDialogOpen
    /\ eventToDelete' = tbl.eventToDelete
    /\ deleteCalls' = tbl.deleteCalls

handleDeleteClick(event, tbl) ==
    [tbl EXCEPT !.eventToDelete = Some(event), !.deleteDialogOpen = TRUE]

\* Mutant: the dialog is closed but eventToDelete is kept
handleDeleteConfirm_Keeps(tbl) ==
    [tbl EXCEPT !.deleteCalls = IF IsSome(tbl.eventToDelete)
                                THEN Append(@, Val(tbl.eventToDelete).id) ELSE @,
                !.deleteDialogOpen = FALSE]

handleDeleteConfirm(tbl) ==
    [tbl EXCEPT !.deleteCalls = IF IsSome(tbl.eventToDelete)
                                THEN Append(@, Val(tbl.eventToDelete).id) ELSE @,
                !.deleteDialogOpen = FALSE,
                !.eventToDelete = None]

\* The dialog's onClose and its cancel button
closeDeleteDialog(tbl) == [tbl EXCEPT !.deleteDialogOpen = FALSE]

\* The delete button of a row. One DELETE request is in flight at a time.
HandleDeleteClick ==
    /\ PanelUsable
    /\ activeTab = "events"
    /\ delPending = None
    /\ Len(deleteCalls) < MaxDeletes
    /\ \E k \in 1..Len(adFilteredEvents) :
        /\ SetTable(handleDeleteClick(adFilteredEvents[k], Table))
        /\ lastClicked' = Some(adFilteredEvents[k].id)
    /\ adLastOp' = "click"
    /\ UNCHANGED <<activeTab, adEvents, adFilteredEvents, adAliased, searchParams,
                   adCrashed, delPending, order, notAdmin>>

\* The delete button of the dialog: handleDeleteConfirm, and AdminPanel's onDelete
\* sends its request, holding the events and filteredEvents of this render
HandleDeleteConfirm ==
    /\ ~adCrashed
    /\ deleteDialogOpen
    /\ SetTable(handleDeleteConfirm(Table))
    /\ delPending' = IF IsSome(eventToDelete)
                     THEN Some(PendingDelete(Val(eventToDelete).id,
                                             IF adAliased THEN "events" ELSE "current",
                                             <<>>))
                     ELSE delPending
    /\ adLastOp' = "confirm"
    /\ UNCHANGED <<activeTab, adEvents, adFilteredEvents, adAliased, searchParams,
                   adCrashed, order, lastClicked, notAdmin>>

CloseDeleteDialog ==
    /\ ~adCrashed
    /\ deleteDialogOpen
    /\ SetTable(closeDeleteDialog(Table))
    /\ adLastOp' = "cancel"
    /\ UNCHANGED <<activeTab, adEvents, adFilteredEvents, adAliased, searchParams,
                   adCrashed, delPending, order, lastClicked, notAdmin>>

\* list.filter(e => e.id !== id)
withoutId(list, id) ==
    LET Other(e) == e.id # id
    IN  SelectSeq(list, Other)

\* The DELETE request settles: on a response both lists lose the event, on a
\* network failure nothing changes
DeleteSettles ==
    /\ ~adCrashed
    /\ IsSome(delPending)
    /\ \/ /\ Rendered(activeTab,
                      withoutId(adEvents, Val(delPending).id),
                      withoutId(pendingFiltered(Val(delPending), adEvents,
                                                adFilteredEvents),
                                Val(delPending).id),
                      FALSE, order)
          /\ adAliased' = FALSE
       \/ UNCHANGED <<adEvents, adFilteredEvents, adAliased, adCrashed>>
    /\ delPending' = None
    /\ adLastOp' = "deleted"
    /\ UNCHANGED <<activeTab, searchParams, order, deleteDialogOpen, eventToDelete,
                   deleteCalls, lastClicked, notAdmin>>

\* AdminPanel and EventTable as constructed
AdminIdle ==
    /\ activeTab = "events"
    /\ adEvents = <<>>
    /\ adFilteredEvents = <<>>
    /\ adAliased = FALSE
    /\ searchParams = NoSearch
    /\ adCrashed = FALSE
    /\ delPending = None
    /\ order = "asc"
    /\ deleteDialogOpen = FALSE
    /\ eventToDelete = None
    /\ deleteCalls = <<>>
    /\ lastClicked = None
    /\ adLastOp = "none"

----------------------------------------------------------------------------
\* components/Admin/EventForm.js and PeriodForm.js: validate and handleSubmit

FormKinds == {"EventForm", "EventFormRich", "PeriodForm"}

\* What can be typed in the start and end fields: dates, or years for PeriodForm
DateInputs == {"", "1000-01-01", "1200-01-01", "1500-01-01"}
YearInputs == {"", "-200", "500", "1000"}
FormInputs(kind) == IF kind = "PeriodForm" THEN YearInputs ELSE DateInputs

\* formData: start and end as typed, and whether all the other required fields of
\* the form are filled in validly
FormData(start, end, rest) == [start |-> start, end |-> end, rest |-> rest]

NaN == None

\* parseInt of what the year fields can hold
parseInt(str) ==
    CASE str = "-200" -> Some(-200)
      [] str = "500" -> Some(500)
      [] str = "1000" -> Some(1000)
      [] OTHER -> NaN

\* a < b on numbers: false when either is NaN
numLess(a, b) == IsSome(a) /\ IsSome(b) /\ Val(a) < Val(b)

\* new Date(a) < new Date(b): false when either is an Invalid Date
dateLess(a, b) == a.kind = "date" /\ b.kind = "date" /\ a.year < b.year

\* PeriodForm.validate: the keys of newErrors
validatePeriod(fd) ==
    (IF fd.rest THEN {} ELSE {"name"})
    \cup (IF fd.start = "" THEN {"startYear"} ELSE {})
    \cup (IF fd.end = "" THEN {"endYear"} ELSE {})
    \cup (IF numLess(parseInt(fd.end), parseInt(fd.start)) THEN {"endYear"} ELSE {})

\* validate of both EventForm variants: the keys of newErrors
validateEvent(kind, fd) ==
    (IF fd.rest THEN {} ELSE {IF kind = "EventForm" THEN "title" ELSE "title.en"})
    \cup (IF fd.start = "" THEN {"startDate"} ELSE {})
    \cup (IF fd.end = "" THEN {"endDate"} ELSE {})
    \cup (IF dateLess(NewDate(fd.end), NewDate(fd.start)) THEN {"endDate"} ELSE {})

validate(kind, fd) ==
    IF kind = "PeriodForm" THEN validatePeriod(fd) ELSE validateEvent(kind, fd)

\* The argument of onSubmit: EventForm sends the dates as ISO strings, the later
\* EventForm formData as it is, PeriodForm the years as numbers
submission(kind, fd) ==
    CASE kind = "EventForm" ->
            [kind |-> kind, start |-> Some(NewDate(fd.start).year),
             end |-> Some(NewDate(fd.end).year)]
      [] kind = "EventFormRich" ->
            [kind |-> kind, start |-> Some(NewDate(fd.start).year),
             end |-> Some(NewDate(fd.end).year)]
      [] kind = "PeriodForm" ->
            [kind |-> kind, start |-> parseInt(fd.start), end |-> parseInt(fd.end)]

notForm == <<fetchVars, loadVars, appVars, ldVars, perfVars, earthVars, adminVars,
             heError>>

\* handleChange: a field of the form is edited
HandleChange ==
    /\ \E fd \in {FormData(st, en, rest) :
                    st \in FormInputs(formKind), en \in FormInputs(formKind),
                    rest \in BOOLEAN} :
        /\ fd # formData
        /\ \/ fd.start = formData.start /\ fd.end = formData.end
           \/ fd.start = formData.start /\ fd.rest = formData.rest
           \/ fd.end = formData.end /\ fd.rest = formData.rest
        /\ formData' = fd
    /\ formLastOp' = "change"
    /\ UNCHANGED <<formKind, formErrors, submitted, notForm>>

\* handleSubmit: setErrors(newErrors), and onSubmit when there are none
HandleSubmit ==
    /\ formErrors' = validate(formKind, formData)
    /\ submitted' = IF validate(formKind, formData) = {}
                    THEN Some(submission(formKind, formData))
                    ELSE None
    /\ formLastOp' = "submit"
    /\ UNCHANGED <<formKind, formData, notForm>>

\* A form opened to add an entry
FormIdle ==
    /\ formKind = "EventForm"
    /\ formData = FormData("", "", FALSE)
    /\ formErrors = {}
    /\ submitted = None
    /\ formLastOp = "none"

----------------------------------------------------------------------------
\* App.handleError on every kind of error

ErrorTypes ==
    {None, Some("DATABASE_ERROR"), Some("VALIDATION_ERROR"), Some("CLIENT_ERROR"),
     Some("AUTH_ERROR"), Some("RATE_LIMIT_ERROR")}

ErrorMessages ==
    {<<>>, MsgTimeout, MsgUpstream, MsgGateway, MsgTooMany, MsgDbDown,
     <<"Too", "many", "requests", "timeout">>}

\* The errors loadInitialData can reject with
HandledErrors ==
    {Err("ApiError", type, message, retry_after) :
        type \in ErrorTypes, message \in ErrorMessages,
        retry_after \in {None, Some(0), Some(2)}}
    \cup {PlainError("Error", message) : message \in ErrorMessages}

notErr == <<fetchVars, useMockData, loadPc, loadData, loadRejs, events, regions, loading,
            loads, ldVars, perfVars, earthVars, adminVars, formVars>>

\* The catch block of the fetchData effect calls handleError(error)
HandleErrorCalled ==
    /\ IsSome(heError)
    /\ SetUi(handleError(Val(heError), Ui))
    /\ handled' = heError
    /\ heError' = None
    /\ UNCHANGED notErr

MoreIdle == AdminIdle /\ FormIdle /\ heError = None

----------------------------------------------------------------------------
\* The parts a specification does not follow stay as they start

LoadIdle == ldEvents = <<>> /\ ldZoom = 0 /\ ldResult = None

PerfIdle == metrics = NoMetrics /\ recorded = NothingRecorded

EarthIdle ==
    /\ e3Events = <<>>
    /\ currentDate = 0
    /\ zoomLevel = 0
    /\ visibleEvents = <<>>
    /\ markersRef = <<>>
    /\ earthMarkers = [id \in EventIds |-> 0]

PageIdle ==
    /\ useMockData = FALSE
    /\ loadPc = "idle"
    /\ loadData = NoData
    /\ loadRejs = {}
    /\ handled = None
    /\ events = <<>>
    /\ regions = <<>>
    /\ loading = FALSE
    /\ error = None
    /\ notification = Notification(FALSE, "info")
    /\ retryCountdown = None
    /\ timers = 0
    /\ loads = 0

----------------------------------------------------------------------------
\* Specifications

\* One fetchApiData invocation of the initial load, followed to the end of
\* fetchWithRetry, and its rejection into the fetchData effect of App
InitFetch ==
    \E ep \in {"events", "periods", "regions"} :
        /\ LoadIdle /\ PerfIdle /\ EarthIdle /\ MoreIdle
        /\ FetchStarted(ep)
        /\ useMockData = FALSE
        /\ loadPc = ep
        /\ loadData = NoData
        /\ loadRejs = {}
        /\ handled = None
        /\ events = <<>>
        /\ regions = <<>>
        /\ loading = TRUE
        /\ error = None
        /\ notification = Notification(FALSE, "info")
        /\ retryCountdown = None
        /\ timers = 0
        /\ loads = 1

\* The rejection of the request is the one Promise.all settles with: loadInitialData
\* rethrows it and the fetchData effect of App runs its catch and finally blocks
RejectionReachesApp ==
    /\ loadPc = endpoint
    /\ apiPc = "rejected"
    /\ loadRejs' = {apiOut.error}
    /\ \E result \in loadInitialDataOutcomes({apiOut.error}, loadData, 0) :
        /\ SetApp(fetchDataSettled(result, AppState))
        /\ handled' = IF result.ok THEN None ELSE Some(result.error)
    /\ loadPc' = "idle"
    /\ UNCHANGED <<fetchVars, useMockData, loadData, loads, notPage>>

NextFetch ==
    \/ FetchFails
    \/ FetchRateLimited
    \/ FetchResponds
    \/ SleepDone
    \/ RaceSettles
    \/ TimeoutFires
    \/ ResponseHandled
    \/ Tick
    \/ RejectionReachesApp

SpecFetch == InitFetch /\ [][NextFetch]_vars

\* The page: the initial load, its outcome on the screen, and what the user and
\* the timers can do next
Init ==
    /\ FetchIdle /\ LoadIdle /\ PerfIdle /\ EarthIdle /\ MoreIdle
    /\ \E mock \in BOOLEAN : PageLoaded(mock)

Next ==
    \/ RequestSettles
    \/ LoadSettles
    \/ CountdownTick
    \/ CloseNotification
    \/ ChangeLanguage
    \/ HandleRetry

Spec == Init /\ [][Next]_vars

\* The same with the browser's timers running: an interval timer that exists fires
SpecLive == Spec /\ WF_vars(CountdownTick)

\* One loadInitialData call, of either loader, on every list of events and zoom level
InitLoad ==
    /\ FetchIdle /\ PageIdle /\ PerfIdle /\ EarthIdle /\ MoreIdle
    /\ ldEvents \in SeqsUpTo(RawEvents, MaxEvents)
    /\ ldZoom \in 0..MaxZoom
    /\ ldResult = None

NextLoad == LoadReturns \/ LoadReturnsMock

SpecLoad == InitLoad /\ [][NextLoad]_vars

\* The PerformanceMonitor from its construction
InitPerf == FetchIdle /\ PageIdle /\ LoadIdle /\ EarthIdle /\ PerfIdle /\ MoreIdle

NextPerf == RecordApiCall \/ RecordMetric \/ Cleanup

SpecPerf == InitPerf /\ [][NextPerf]_vars

\* Earth3D from its first render: no events yet, zoomLevel 0, no markers
InitEarth ==
    /\ FetchIdle /\ PageIdle /\ LoadIdle /\ PerfIdle /\ MoreIdle
    /\ e3Events = <<>>
    /\ currentDate \in Years
    /\ zoomLevel = 0
    /\ visibleEvents = <<>>
    /\ markersRef = <<>>
    /\ earthMarkers = [id \in EventIds |-> 0]

NextEarth == SetCurrentDate \/ SetEvents \/ ControlsChange \/ AnimationFrame

SpecEarth == InitEarth /\ [][NextEarth]_vars

\* The admin panel from its first render
InitAdmin ==
    /\ FetchIdle /\ PageIdle /\ LoadIdle /\ PerfIdle /\ EarthIdle
    /\ AdminIdle /\ FormIdle /\ heError = None

NextAdmin ==
    \/ AdminLoaded
    \/ SetSearchParams
    \/ HandleSearch
    \/ HandleReset
    \/ HandleTabChange
    \/ HandleRequestSort
    \/ HandleDeleteClick
    \/ HandleDeleteConfirm
    \/ CloseDeleteDialog
    \/ DeleteSettles

SpecAdmin == InitAdmin /\ [][NextAdmin]_vars

\* One of the three forms, opened empty
InitForm ==
    /\ FetchIdle /\ PageIdle /\ LoadIdle /\ PerfIdle /\ EarthIdle
    /\ AdminIdle /\ heError = None
    /\ formKind \in FormKinds
    /\ formData = FormData("", "", FALSE)
    /\ formErrors = {}
    /\ submitted = None
    /\ formLastOp = "none"

NextForm == HandleChange \/ HandleSubmit

SpecForm == InitForm /\ [][NextForm]_vars

\* The load of the page has failed with any error, an earlier notification open or not
InitErr ==
    /\ FetchIdle /\ LoadIdle /\ PerfIdle /\ EarthIdle /\ AdminIdle /\ FormIdle
    /\ useMockData \in BOOLEAN
    /\ loadPc = "idle"
    /\ loadData = NoData
    /\ loadRejs = {}
    /\ handled = None
    /\ events = <<>>
    /\ regions = <<>>
    /\ loading = FALSE
    /\ error = None
    /\ notification \in {Notification(FALSE, "info"), Notification(TRUE, "warning"),
                         Notification(TRUE, "error"), Notification(FALSE, "error")}
    /\ retryCountdown = None
    /\ timers = 0
    /\ loads = 1
    /\ heError \in {Some(e) : e \in HandledErrors}

NextErr == HandleErrorCalled \/ CountdownTick

SpecErr == InitErr /\ [][NextErr]_vars

----------------------------------------------------------------------------
\* Claims about fetchApiData and fetchWithRetry (checked under SpecFetch)

\* The body was read from a real response and carries success = false and an error
ServerRejected ==
    /\ IsSome(apiBody)
    /\ Val(apiBody).parsable
    /\ ~Val(apiBody).success
    /\ IsSome(Val(apiBody).error)

C2_StatedWait(a) ==
    IF a.kind = "429" /\ IsSome(a.retry_after)
    THEN Val(a.retry_after)
    ELSE (2 ^ a.i) * 1000

\* The same, a retry_after of 0 counting as absent
C2_AmendedWait(a) ==
    IF a.kind = "429" /\ IsSome(a.retry_after) /\ Val(a.retry_after) # 0
    THEN Val(a.retry_after)
    ELSE (2 ^ a.i) * 1000

LastAttempt == attemptLog[Len(attemptLog)]

\* The parts of C2 that do not depend on the length of the wait
C2_Attempts ==
    /\ Len(attemptLog) + (IF frPc = "fetching" THEN 1 ELSE 0) <= retries
    /\ \A k \in 1..Len(attemptLog) :
        /\ attemptLog[k].i = k - 1
        /\ attemptLog[k].kind = "response" =>
            /\ k = Len(attemptLog)
            /\ frPc = "returned"
            /\ frResult.kind = "response"

C2_Waits(Wait(_)) ==
    /\ frPc = "sleeping" => frWakeAt = LastAttempt.end + Wait(LastAttempt)
    /\ \A k \in 1..(Len(attemptLog) - 1) :
        attemptLog[k + 1].start >= attemptLog[k].end + Wait(attemptLog[k])
    /\ (frPc = "fetching" /\ Len(attemptLog) > 0) =>
        frStart >= LastAttempt.end + Wait(LastAttempt)

\* C2 as stated: at most `retries` fetch calls; after a network failure on attempt i
\* a wait of 2^i x 1000 ms, after a 429 a wait of the body's retry_after (2^i x 1000 ms
\* when absent); no attempt before the wait is over; any other response is returned
\* at once.
C2_Original == C2_Attempts /\ C2_Waits(C2_StatedWait)

\* C2 (amended): as C2, except that a retry_after of 0 is treated like an absent one:
\* the wait after such a 429 is 2^i x 1000 ms.
C2_RetryWaits == C2_Attempts /\ C2_Waits(C2_AmendedWait)

\* C2 witness: three attempts, a network failure, a 429 with retry_after and a
\* response, the third one issued after the waits 1000 ms and 3000 ms
C2_Witness ==
    /\ Len(attemptLog) = 3
    /\ attemptLog[1].kind = "neterr"
    /\ attemptLog[2].kind = "429"
    /\ attemptLog[2].retry_after = Some(3000)
    /\ attemptLog[3].kind = "response"
    /\ attemptLog[3].start = attemptLog[2].end + 3000
    /\ attemptLog[2].start = attemptLog[1].end + 1000

\* Every attempt of the request was answered with HTTP 429
AllRateLimited ==
    /\ Len(attemptLog) = retries
    /\ \A k \in 1..retries : attemptLog[k].kind = "429"

\* C3: a request of the initial load that is rate-limited on every attempt reaches
\* handleError as a CLIENT_ERROR whose message contains 'Too many requests', and the
\* rate-limit screen (no retry button) is shown with the countdown running.
C3_RateLimitScreen ==
    (AllRateLimited /\ apiPc = "rejected" /\ loadPc = "idle") =>
        /\ apiOut.error.type = Some("CLIENT_ERROR")
        /\ includes(apiOut.error.message, MsgTooMany)
        /\ error = ErrorScreen("rateLimitError", FALSE)
        /\ IsSome(retryCountdown)
        /\ timers = 1

\* When fetchWithRetry settled: the end of its last fetch call, or of its last sleep
FrSettleTime ==
    IF frResult.kind = "undefined" THEN frWakeAt ELSE LastAttempt.end

\* C4: when fetchWithRetry has not settled within apiTimeout ms, fetchApiData rejects
\* at that time with an ApiError CLIENT_ERROR 'Request timeout', and handleError shows
\* it as the timeout error: a blocking error with the retry button, no notification.
C4_Timeout ==
    /\ (now > apiTimeout /\ (FrSettled => FrSettleTime > apiTimeout)) => timedOut
    /\ timedOut =>
        /\ apiPc = "rejected"
        /\ apiOut.error = Err("ApiError", Some("CLIENT_ERROR"), <<"Request", "timeout">>, None)
        /\ handleError(apiOut.error, UiState(None, Notification(FALSE, "info"), None, 0))
             = UiState(ErrorScreen("timeoutError", TRUE), Notification(FALSE, "info"), None, 0)
        /\ loadPc = "idle" =>
            /\ error = ErrorScreen("timeoutError", TRUE)
            /\ ~notification.open
            /\ ~loading

\* C4 witness: the timer fired while fetchWithRetry was asleep between attempts, the
\* rejection reached App, and fetchWithRetry went on to get a response afterwards
C4_Witness ==
    /\ timedOut
    /\ loadPc = "idle"
    /\ error = ErrorScreen("timeoutError", TRUE)
    /\ frPc = "returned"
    /\ frResult.kind = "response"
    /\ FrSettleTime > apiTimeout

----------------------------------------------------------------------------
\* Claims about loadInitialData (checked under SpecLoad)

\* The positions of the loaded events the claim says are returned
C5_Kept ==
    {k \in 1..Len(ldEvents) : ldZoom = 0 \/ ldEvents[k].location.zoomLevel <= ldZoom}

\* The j-th of them, in the order loaded
C5_Nth(j) == CHOOSE k \in C5_Kept : Cardinality({m \in C5_Kept : m < k}) = j - 1

\* C5: loadInitialData(zoomLevel) returns every loaded event when zoomLevel is 0 and
\* otherwise exactly those with location.zoomLevel <= zoomLevel: the returned events
\* are the transformed images of those events in their loaded order, none added,
\* dropped or duplicated, and periods and regions are returned as loaded.
C5_FilteredInOrder ==
    IsSome(ldResult) =>
        LET r == Val(ldResult)
            T(e) == IF r.variant = "DataLoader" THEN transformEvent(e)
                    ELSE transformEventMock(e)
        IN  /\ Len(r.value.events) = Cardinality(C5_Kept)
            /\ \A j \in 1..Len(r.value.events) :
                /\ r.value.events[j] = T(ldEvents[C5_Nth(j)])
                /\ r.value.events[j].id = ldEvents[C5_Nth(j)].id
            /\ ldZoom = 0 => Len(r.value.events) = Len(ldEvents)
            /\ r.value.periods = r.periods
            /\ r.variant = "DataLoader" => r.value.regions = r.regions

\* C5 witness: at zoom level 1, of three loaded events the first and the last are
\* returned and the one in between, of zoom level 2, is not
C5_Witness ==
    /\ IsSome(ldResult)
    /\ ldZoom = 1
    /\ ldEvents = <<evB, evC, evA>>
    /\ Len(Val(ldResult).value.events) = 2
    /\ Val(ldResult).value.events[1].id = "b"
    /\ Val(ldResult).value.events[2].id = "a"

----------------------------------------------------------------------------
\* Claims about the load effect of App and the rate-limit countdown
\* (checked under Spec and SpecLive)

\* A step in which loadInitialData settles and the fetchData effect finishes
LoadSettling == loadPc = "regions" /\ loadPc' = "idle"

\* C6: loadInitialData is all-or-nothing: when any of its three loads fails it rejects,
\* App keeps events and regions as they were and passes the error (one of the
\* rejections) to handleError; when none fails, events and regions are set from the
\* result; either way loading is false once the load has settled.
C6_AllOrNothing ==
    [][LoadSettling =>
        /\ loading' = FALSE
        /\ IF loadRejs' # {}
           THEN /\ events' = events
                /\ regions' = regions
                /\ IsSome(handled')
                /\ Val(handled') \in loadRejs'
                /\ UiState(error', notification', retryCountdown', timers')
                     = handleError(Val(handled'), Ui)
           ELSE /\ handled' = None
                /\ Len(events') = Len(loadData'.events)
                /\ \A k \in 1..Len(events') : events'[k].id = loadData'.events[k].id
                /\ regions' = loadData'.regions
                /\ UiState(error', notification', retryCountdown', timers') = Ui]_vars

\* C6 witness: a second load delivered an empty list of events but another of its
\* loads failed, and the events of the first load are still there
C6_Witness ==
    /\ loadPc = "idle"
    /\ loads = 2
    /\ loadRejs # {}
    /\ loadData.events = <<>>
    /\ Len(events) = 2
    /\ ~loading

\* handleError was called with a CLIENT_ERROR whose message contains 'Too many requests'
C8_RateLimited(e) == e.type = Some("CLIENT_ERROR") /\ includes(e.message, MsgTooMany)

\* The start of the countdown as the claim states it
C8_StatedStart(e) == IF IsSome(e.retry_after) THEN Val(e.retry_after) ELSE 60

\* The same, a retry_after of 0 counting as absent
C8_AmendedStart(e) ==
    IF IsSome(e.retry_after) /\ Val(e.retry_after) # 0 THEN Val(e.retry_after) ELSE 60

C8_Started(start) ==
    /\ retryCountdown' = Some(start)
    /\ timers' = 1
    /\ error' = ErrorScreen("rateLimitError", FALSE)

C8_StartsAsStated ==
    [][(LoadSettling /\ IsSome(handled') /\ C8_RateLimited(Val(handled'))) =>
        C8_Started(C8_StatedStart(Val(handled')))]_vars

C8_StartsAmended ==
    [][(LoadSettling /\ IsSome(handled') /\ C8_RateLimited(Val(handled'))) =>
        C8_Started(C8_AmendedStart(Val(handled')))]_vars

\* One second later the countdown is one less, or, from 1, null with the timer
\* cleared and the blocking error removed
C8_CountsDown ==
    [][(IsSome(retryCountdown) /\ retryCountdown' # retryCountdown) =>
        IF Val(retryCountdown) > 1
        THEN /\ retryCountdown' = Some(Val(retryCountdown) - 1)
             /\ timers' = timers
             /\ error' = error
        ELSE /\ retryCountdown' = None
             /\ timers' = 0
             /\ error' = None]_vars

C8_Positive == [](IsSome(retryCountdown) => (Val(retryCountdown) >= 1 /\ timers = 1))

C8_Ends == [](IsSome(retryCountdown) => <>(retryCountdown = None))

C9_ReloadOnExpiry ==
    [][(IsSome(retryCountdown) /\ retryCountdown' = None /\ timers' < timers) =>
        (loadPc' # "idle" /\ loading')]_vars

----------------------------------------------------------------------------
\* Claims about the PerformanceMonitor (checked under SpecPerf)

RECURSIVE SumOf(_)
SumOf(seq) == IF seq = <<>> THEN 0 ELSE seq[1] + SumOf(Tail(seq))

\* The last n elements of a sequence
LastN(seq, n) == SubSeq(seq, Len(seq) - n + 1, Len(seq))

\* C7: after any sequence of recordApiCall and recordMetric calls, the durations of
\* every metric are at most 100 and are the values recorded last for it, in the order
\* of recording, while calls and totalDuration count every recording made for it.
C7_BoundedDurations ==
    \A name \in MetricNames :
        LET metric == metricsGet(metrics, name)
            all == recorded[name]
        IN  /\ Len(metric.durations) <= 100
            /\ metric.durations =
                 LastN(all, IF Len(all) <= 100 THEN Len(all) ELSE 100)
            /\ metric.calls = Len(all)
            /\ metric.totalDuration = SumOf(all)

\* C7 witness: a metric with more than 100 recordings, the dropped ones still counted
C7_Witness ==
    LET metric == metricsGet(metrics, ApiEndpoint)
    IN  /\ metric.calls = 102
        /\ Len(metric.durations) = 100
        /\ recorded[ApiEndpoint][1] = 1
        /\ metric.durations[1] = 2
        /\ metric.totalDuration = SumOf(metric.durations) + 2

----------------------------------------------------------------------------
\* Claims about Earth3D (checked under SpecEarth)

\* C10: whenever currentDate, the events or the zoom level have changed, the globe
\* holds exactly one marker per event with startDate <= currentDate <= endDate and
\* location.zoomLevel <= zoomLevel, none at all while zoomLevel is 0, and no marker
\* of an earlier set.
C10_MarkersMatchVisible ==
    \A id \in EventIds :
        earthMarkers[id] =
            CountOf(MapSeq(idOf, visibleEventsOf(e3Events, currentDate, zoomLevel)), id)

----------------------------------------------------------------------------
\* Claims about the admin panel (checked under SpecAdmin)

\* How often an event occurs in a list
CountIn(list, event) == Cardinality({k \in 1..Len(list) : list[k] = event})

\* Two lists hold the same events, in whatever order the table has sorted them
SameEvents(a, b) == \A event \in AdminEvents : CountIn(a, event) = CountIn(b, event)

\* An event satisfies every non-empty criterion: its title contains the text, its
\* period is the given one, its startDate is not before the given start and its
\* endDate not after the given end
C11_Satisfies(event, sp) ==
    /\ sp.title = <<>> \/ includes(event.title.text, sp.title)
    /\ sp.period = "" \/ event.period = sp.period
    /\ sp.startDate = "" \/ dateGeq(newDateOf(event.startDate), NewDate(sp.startDate))
    /\ sp.endDate = "" \/ dateLeq(newDateOf(event.endDate), NewDate(sp.endDate))

C11_Expected(evts, sp) ==
    LET Satisfies(event) == C11_Satisfies(event, sp)
    IN  SelectSeq(evts, Satisfies)

\* C11: handleSearch on the events tab sets filteredEvents to exactly the events that
\* satisfy every non-empty search criterion; handleReset empties all criteria and
\* sets filteredEvents back to the full events list; neither changes events.
C11_SearchAndReset ==
    [][/\ (adLastOp' = "search" /\ activeTab = "events")
            => /\ SameEvents(adFilteredEvents', C11_Expected(adEvents, searchParams))
               /\ adEvents' = adEvents
       /\ adLastOp' = "reset"
            => /\ searchParams' = NoSearch
               /\ SameEvents(adFilteredEvents', adEvents)
               /\ adEvents' = adEvents]_vars

\* C12: onDelete is called only by a confirmation in the dialog that a click on a
\* delete button has opened, once per confirmation and with the id of the event
\* whose delete button was clicked last; closing or cancelling the dialog calls
\* nothing; after a confirmation the dialog is closed and eventToDelete is null.
C12_DeleteOnConfirm ==
    [][/\ deleteCalls' # deleteCalls
            => /\ adLastOp' = "confirm"
               /\ adLastOp = "click"
       /\ adLastOp' = "confirm"
            => /\ IsSome(lastClicked)
               /\ deleteCalls' = Append(deleteCalls, Val(lastClicked))
               /\ ~deleteDialogOpen'
               /\ eventToDelete' = None
       /\ adLastOp' = "cancel"
            => /\ deleteCalls' = deleteCalls
               /\ ~deleteDialogOpen']_vars

\* C12 witness: a second confirmation, for another event than the first, has just
\* called onDelete
C12_Witness ==
    /\ adLastOp = "confirm"
    /\ Len(deleteCalls) = 2
    /\ deleteCalls[1] # deleteCalls[2]
    /\ lastClicked = Some(deleteCalls[2])
    /\ ~deleteDialogOpen
    /\ eventToDelete = None

----------------------------------------------------------------------------
\* Claims about EventForm and PeriodForm (checked under SpecForm)

\* Both fields are filled in and the end is after the start
C13_EndAfterStart(kind, fd) ==
    IF kind = "PeriodForm"
    THEN numLess(parseInt(fd.start), parseInt(fd.end))
    ELSE dateLess(NewDate(fd.start), NewDate(fd.end))

\* The key of errors the message about the end is stored under
C13_EndKey(kind) == IF kind = "PeriodForm" THEN "endYear" ELSE "endDate"

\* C13: EventForm and PeriodForm call onSubmit only for an entry whose end is after
\* its start: when handleSubmit runs on a form whose start and end are filled in
\* and whose end is not after its start, onSubmit is not called and
\* errors.endDate / errors.endYear is set.
C13_SubmitsOnlyEndAfterStart ==
    (/\ formLastOp = "submit"
     /\ formData.start # ""
     /\ formData.end # ""
     /\ ~C13_EndAfterStart(formKind, formData))
        => /\ submitted = None
           /\ C13_EndKey(formKind) \in formErrors

----------------------------------------------------------------------------
\* Claims about App.handleError (checked under SpecErr)

\* The outcome stated for an error; a CLIENT_ERROR whose message holds both
\* 'timeout' and 'Too many requests' counts as a timeout, the case named first
C14_Outcome(e) ==
    CASE e.type = Some("DATABASE_ERROR") -> "retry"
      [] e.type = Some("VALIDATION_ERROR") -> "warning"
      [] e.type = Some("CLIENT_ERROR") /\ includes(e.message, <<"timeout">>) -> "retry"
      [] e.type = Some("CLIENT_ERROR") /\ ~includes(e.message, <<"timeout">>)
            /\ includes(e.message, MsgTooMany) -> "noRetry"
      [] e.type = Some("CLIENT_ERROR") /\ ~includes(e.message, <<"timeout">>)
            /\ ~includes(e.message, MsgTooMany) -> "error"
      [] OTHER -> "retry"

\* C14: handleError maps every error to exactly one outcome: DATABASE_ERROR,
\* CLIENT_ERROR with 'timeout' in the message and any unrecognised type set a
\* blocking error with retry = true; CLIENT_ERROR with 'Too many requests' a
\* blocking error with retry = false; VALIDATION_ERROR and any other CLIENT_ERROR
\* only open the snackbar (severity warning and error) and leave the blocking error
\* unset; no error sets both a blocking error and a notification.
C14_OneOutcome ==
    [][(IsSome(heError) /\ heError' = None)
         => LET outcome == C14_Outcome(Val(heError))
            IN  /\ outcome = "retry"
                     => /\ IsSome(error') /\ Val(error').retry
                        /\ notification' = notification
                /\ outcome = "noRetry"
                     => /\ IsSome(error') /\ ~Val(error').retry
                        /\ notification' = notification
                /\ outcome = "warning"
                     => /\ error' = None
                        /\ notification' = Notification(TRUE, "warning")
                /\ outcome = "error"
                     => /\ error' = None
                        /\ notification' = Notification(TRUE, "error")
                /\ ~(IsSome(error') /\ notification' # notification)]_vars

\* C14 witness: a CLIENT_ERROR that is neither a timeout nor a rate limit has been
\* handled, the snackbar shows it and no blocking error is set
C14_Witness ==
    /\ heError = None
    /\ IsSome(handled)
    /\ Val(handled).type = Some("CLIENT_ERROR")
    /\ Val(handled).message = MsgGateway
    /\ notification = Notification(TRUE, "error")
    /\ error = None

====
